---- MODULE Spec2Model ----
(***************************************************************************)
(* Model of react-falcon: the fallback signature engine built by           *)
(* FalconProvider (createMockWasmModule), the mock wasm module             *)
(* (src/src/wasm/falcon_wasm.js), the real-backend wrapper                 *)
(* (src/wasm/falcon_wasm.js), the provider's load cycle (loadWasm) and the *)
(* useFalcon hook.                                                         *)
(*                                                                         *)
(* Byte arrays are sequences over 0..255; JavaScript index i is sequence   *)
(* index i + 1.  A call's outcome is a record [kind, val]: kind "ok" with  *)
(* the returned value, or the kind of the exception thrown.                *)
(***************************************************************************)
EXTENDS Integers, Sequences, FiniteSets, Bags, TLC

\* ------------------------------------------------------------------------
\* Program constants
\* ------------------------------------------------------------------------
MIN_SEED_LEN == 48
PK_LEN == 897
SK_LEN == 1281
SIG_LEN == 666
MW_SIG_LEN == 64
HASH_LEN == 32
MIN_SALT_LEN == 8
MAX_ROUNDS == 1000
SK_OFFSET == 100
SK_XOR_OFFSET == 50
PATTERN_END == 132

\* ------------------------------------------------------------------------
\* Bounds of the model
\* ------------------------------------------------------------------------
MaxSeedBase == 1
MaxSeedStep == 2
MaxMsgLen == 2
MaxIndex == 2
MaxExtraSeedLen == 1
MaxCallDepth == 2
MaxIterations == 2
MaxNativeFill == 1
MaxLoads == 2
MaxHeapCalls == 2
MaxInitCalls == 3

\* ------------------------------------------------------------------------
\* Bytes, arrays and outcomes
\* ------------------------------------------------------------------------
Min(a, b) == IF a < b THEN a ELSE b

\* a[i] for a JavaScript index i
At(a, i) == a[i + 1]

\* Array.prototype.slice(from, to): clipped to the array, never throws
Slice(a, from, to) == SubSeq(a, from + 1, Min(to, Len(a)))

\* the n-element array with the elements of f, as a value (a filled
\* new Uint8Array(n), the result of Array.prototype.map)
Arr(f, n) == SubSeq(f, 1, n)

\* a ^ b for all bytes a and b, bit by bit: row a + 1, column b + 1
XorTable ==
  LET Bit(a, k) == (a \div (2 ^ k)) % 2
      BitXor(a, b) ==
          ((Bit(a, 0) + Bit(b, 0)) % 2)
        + 2 * ((Bit(a, 1) + Bit(b, 1)) % 2)
        + 4 * ((Bit(a, 2) + Bit(b, 2)) % 2)
        + 8 * ((Bit(a, 3) + Bit(b, 3)) % 2)
        + 16 * ((Bit(a, 4) + Bit(b, 4)) % 2)
        + 32 * ((Bit(a, 5) + Bit(b, 5)) % 2)
        + 64 * ((Bit(a, 6) + Bit(b, 6)) % 2)
        + 128 * ((Bit(a, 7) + Bit(b, 7)) % 2)
  IN Arr([a \in 1..256 |-> Arr([b \in 1..256 |-> BitXor(a - 1, b - 1)], 256)], 256)

\* a ^ b on bytes
Xor(a, b) == XorTable[a + 1][b + 1]

Ok(v) == [kind |-> "ok", val |-> v]
Throw(k) == [kind |-> k, val |-> <<>>]

\* ------------------------------------------------------------------------
\* simpleHash (ByteMixer)
\* ------------------------------------------------------------------------
\* first loop, iterations lo..hi-1 in ascending order:
\*   hash[i % 32] = (hash[i % 32] + data[i]) % 256
\* A range of at most 32 iterations starting at a multiple of 32 touches each
\* accumulator byte at most once; a longer range is run as its first half
\* followed by its second half.
RECURSIVE Accumulate(_, _, _, _)
Accumulate(hash, data, lo, hi) ==
  IF hi - lo <= HASH_LEN
  THEN Arr([k \in 1..HASH_LEN |->
              IF lo + (k - 1) < hi
              THEN (hash[k] + At(data, lo + (k - 1))) % 256
              ELSE hash[k]], HASH_LEN)
  ELSE LET mid == lo + HASH_LEN * (((hi - lo) \div HASH_LEN + 1) \div 2)
           first == Accumulate(hash, data, lo, mid)
       IN IF Len(first) = HASH_LEN THEN Accumulate(first, data, mid, hi) ELSE first

\* second loop, in place, iterations lo..hi-1 in ascending order:
\*   hash[i] = ((hash[i] << 1) | (hash[(i + 1) % 32] >>> 7)) % 256
\* (hash[i] << 1 has bit 0 clear, so the OR adds the carried bit)
RECURSIVE RotatePass(_, _, _)
RotatePass(hash, lo, hi) ==
  IF hi <= lo THEN hash
  ELSE IF hi = lo + 1
  THEN [hash EXCEPT ![lo + 1] =
          (2 * At(hash, lo) + (At(hash, (lo + 1) % HASH_LEN) \div 128)) % 256]
  ELSE LET mid == lo + ((hi - lo) \div 2)
           first == RotatePass(hash, lo, mid)
       IN IF Len(first) = HASH_LEN THEN RotatePass(first, mid, hi) ELSE first

simpleHash(data) ==
  LET acc == Accumulate(Arr([k \in 1..HASH_LEN |-> 0], HASH_LEN), data, 0, Len(data))
  IN IF Len(acc) = HASH_LEN THEN RotatePass(acc, 0, HASH_LEN) ELSE acc

\* ------------------------------------------------------------------------
\* uint8ArrayToHex and hexToUint8Array of src/src/utils/index.ts; a string is
\* the sequence of its UTF-16 code units ("0" is 48, "a" is 97, "A" is 65)
\* ------------------------------------------------------------------------
\* "0123456789abcdef"
HexDigits == <<48, 49, 50, 51, 52, 53, 54, 55, 56, 57, 97, 98, 99, 100, 101, 102>>

\* b.toString(16)
ToString16(b) ==
  IF b < 16 THEN <<HexDigits[b + 1]>>
  ELSE <<HexDigits[(b \div 16) + 1], HexDigits[(b % 16) + 1]>>

\* str.padStart(2, '0')
PadStart2(str) == IF Len(str) = 0 THEN <<48, 48>>
                  ELSE IF Len(str) = 1 THEN <<48>> \o str
                  ELSE str

\* parts.join('')
RECURSIVE Join(_)
Join(parts) == IF parts = <<>> THEN <<>> ELSE Head(parts) \o Join(Tail(parts))

uint8ArrayToHex(bytes) ==
  Join([k \in 1..Len(bytes) |-> PadStart2(ToString16(bytes[k]))])

\* the value of a character as a digit of base 16: "0".."9", "a".."f" or
\* "A".."F"; -1 if it is none
DigitValue(c) ==
  IF c \in 48..57 THEN c - 48
  ELSE IF c \in 97..102 THEN c - 87
  ELSE IF c \in 65..70 THEN c - 55
  ELSE -1

\* str without the leading white space parseInt skips: the white space and
\* the line terminators of ECMAScript (TAB, LF, VT, FF, CR, SP, NBSP, the
\* space separators U+1680, U+2000..U+200A, U+202F, U+205F, U+3000, the
\* separators U+2028 and U+2029, and U+FEFF)
RECURSIVE StripSpace(_)
StripSpace(str) ==
  IF /\ str # <<>>
     /\ Head(str) \in (9..13) \cup {32, 160, 5760} \cup (8192..8202)
                        \cup {8232, 8233, 8239, 8287, 12288, 65279}
  THEN StripSpace(Tail(str))
  ELSE str

\* the number the leading digits of str denote after acc, -1 (NaN) if acc is
\* -1 and str starts with no digit
RECURSIVE ParseDigits(_, _)
ParseDigits(str, acc) ==
  IF str = <<>> \/ DigitValue(Head(str)) < 0 THEN acc
  ELSE ParseDigits(Tail(str), 16 * (IF acc < 0 THEN 0 ELSE acc) + DigitValue(Head(str)))

\* parseInt(chunk, 16) stored in a Uint8Array: leading white space skipped, a
\* sign ("+" 43, "-" 45), a prefix 0x or 0X ("x" 120, "X" 88), then the digits
\* up to the first character that is none; NaN is stored as 0 and a negative
\* number modulo 256
ParseInt16(chunk) ==
  LET trimmed == StripSpace(chunk)
      signed == trimmed # <<>> /\ Head(trimmed) \in {43, 45}
      body == IF signed THEN Tail(trimmed) ELSE trimmed
      prefixed == Len(body) >= 2 /\ body[1] = 48 /\ body[2] \in {120, 88}
      number == ParseDigits(IF prefixed THEN SubSeq(body, 3, Len(body)) ELSE body, -1)
  IN IF number < 0 THEN 0
     ELSE IF signed /\ Head(trimmed) = 45 THEN (256 - (number % 256)) % 256
     ELSE number % 256

\* hex.match(/.{1,2}/g): the runs between line terminators (LF, CR, U+2028,
\* U+2029), which "." does not match, cut in chunks of two characters and a
\* last one of one character
RECURSIVE Chunks(_)
Chunks(hex) ==
  IF hex = <<>> THEN <<>>
  ELSE IF Head(hex) \in {10, 13, 8232, 8233} THEN Chunks(Tail(hex))
  ELSE IF Len(hex) >= 2 /\ hex[2] \notin {10, 13, 8232, 8233}
  THEN <<SubSeq(hex, 1, 2)>> \o Chunks(SubSeq(hex, 3, Len(hex)))
  ELSE <<SubSeq(hex, 1, 1)>> \o Chunks(Tail(hex))

\* matches is null when nothing matched
hexToUint8Array(hex) ==
  LET matches == Chunks(hex)
  IN IF matches = <<>> THEN Throw("InvalidInput")
     ELSE Ok(Arr([k \in 1..Len(matches) |-> ParseInt16(matches[k])], Len(matches)))

\* ------------------------------------------------------------------------
\* createMockWasmModule of FalconProvider (the fallback backend)
\* ------------------------------------------------------------------------
\* as keypair_from_seed, with the two buffer lengths exchanged
keypair_from_seed_swapped(seed) ==
  IF Len(seed) < MIN_SEED_LEN THEN Throw("InvalidInput")
  ELSE Ok([public_key |->
             Arr([i \in 1..SK_LEN |->
                    Xor(At(seed, (i - 1) % Len(seed)), (i - 1) % 256)], SK_LEN),
           secret_key |->
             Arr([i \in 1..PK_LEN |->
                    Xor(At(seed, ((i - 1) + SK_OFFSET) % Len(seed)),
                        ((i - 1) + SK_XOR_OFFSET) % 256)], PK_LEN)])

keypair_from_seed(seed) ==
  IF Len(seed) < MIN_SEED_LEN THEN Throw("InvalidInput")
  ELSE Ok([public_key |->
             Arr([i \in 1..PK_LEN |->
                    Xor(At(seed, (i - 1) % Len(seed)), (i - 1) % 256)], PK_LEN),
           secret_key |->
             Arr([i \in 1..SK_LEN |->
                    Xor(At(seed, ((i - 1) + SK_OFFSET) % Len(seed)),
                        ((i - 1) + SK_XOR_OFFSET) % 256)], SK_LEN)])

\* signature[i] = hash[i % 32] ^ (i & 0xff) over hash = simpleHash(msg ++ pattern)
Expand(hash, n) ==
  Arr([i \in 1..n |-> Xor(At(hash, (i - 1) % HASH_LEN), (i - 1) % 256)], n)

\* as sign, with the pattern taken from the first 132 bytes of the key
sign_from_start(message, secret_key) ==
  IF Len(secret_key) = 0 THEN Throw("InvalidInput")
  ELSE Ok(Expand(simpleHash(message \o Slice(secret_key, 0, PATTERN_END)),
                 SIG_LEN))

sign(message, secret_key) ==
  IF Len(secret_key) = 0 THEN Throw("InvalidInput")
  ELSE Ok(Expand(simpleHash(message \o Slice(secret_key, SK_OFFSET, PATTERN_END)),
                 SIG_LEN))

\* as verify, without the length check and comparing over the length given
verify_any_length(message, signature, public_key) ==
  IF Len(signature) = 0 \/ Len(public_key) = 0 THEN Ok(FALSE)
  ELSE Ok(Expand(simpleHash(message \o Slice(public_key, 0, HASH_LEN)), Len(signature))
            = signature)

verify(message, signature, public_key) ==
  IF Len(signature) = 0 \/ Len(public_key) = 0 THEN Ok(FALSE)
  ELSE IF Len(signature) # SIG_LEN THEN Ok(FALSE)
  ELSE Ok(Expand(simpleHash(message \o Slice(public_key, 0, HASH_LEN)), SIG_LEN)
            = signature)

\* one round of derived.map((v, idx) => (v + derived[(idx + 1) % derived.length]) % 256)
MapRound(derived) ==
  Arr([idx \in 1..Len(derived) |->
         (At(derived, idx - 1) + At(derived, idx % Len(derived))) % 256],
      Len(derived))

\* n rounds of the loop, split in halves to keep the evaluation shallow
RECURSIVE MapRounds(_, _)
MapRounds(derived, n) ==
  IF n = 0 THEN derived
  ELSE IF n = 1 THEN MapRound(derived)
  ELSE LET first == MapRounds(derived, n \div 2)
       IN IF Len(first) = Len(derived) THEN MapRounds(first, n - (n \div 2)) ELSE first

\* the buffer as it is, neither cut nor repeated to 48 bytes
TakeWhole(buf) == buf

\* seed[i] = buf[i % buf.length] for i < 48
Take48(buf) ==
  Arr([i \in 1..MIN_SEED_LEN |-> At(buf, (i - 1) % Len(buf))], MIN_SEED_LEN)

\* as seed_from_passphrase, accepting a salt of 7 bytes
seed_from_passphrase_short_salt(passphrase, salt, iterations) ==
  IF Len(passphrase) = 0 THEN Throw("InvalidInput")
  ELSE IF Len(salt) < MIN_SALT_LEN - 1 THEN Throw("InvalidInput")
  ELSE IF iterations <= 0 THEN Throw("InvalidInput")
  ELSE Ok(Take48(MapRounds(passphrase \o salt, Min(iterations, MAX_ROUNDS))))

\* as seed_from_passphrase, with as many rounds as iterations asks for
seed_from_passphrase_uncapped(passphrase, salt, iterations) ==
  IF Len(passphrase) = 0 THEN Throw("InvalidInput")
  ELSE IF Len(salt) < MIN_SALT_LEN THEN Throw("InvalidInput")
  ELSE IF iterations <= 0 THEN Throw("InvalidInput")
  ELSE Ok(Take48(MapRounds(passphrase \o salt, iterations)))

seed_from_passphrase(passphrase, salt, iterations) ==
  IF Len(passphrase) = 0 THEN Throw("InvalidInput")
  ELSE IF Len(salt) < MIN_SALT_LEN THEN Throw("InvalidInput")
  ELSE IF iterations <= 0 THEN Throw("InvalidInput")
  ELSE Ok(Take48(MapRounds(passphrase \o salt, Min(iterations, MAX_ROUNDS))))

keypair_from_passphrase(passphrase, salt, iterations) ==
  LET seed == seed_from_passphrase(passphrase, salt, iterations)
  IN IF seed.kind # "ok" THEN seed ELSE keypair_from_seed(seed.val)

\* [(index >>> 24) & 0xff, (index >>> 16) & 0xff, (index >>> 8) & 0xff, index & 0xff]
\* A 32-bit index at or above 2^31 is written as its signed value index - 2^32:
\* floored division gives the same four bytes.
IndexBytes(index) ==
  << (index \div 16777216) % 256, (index \div 65536) % 256,
     (index \div 256) % 256, index % 256 >>

\* as derive_child_seed, rejecting only master seeds shorter than 47 bytes
derive_child_seed_lenient(master_seed, index) ==
  IF Len(master_seed) < MIN_SEED_LEN - 1 THEN Throw("InvalidInput")
  ELSE Ok(Take48(MapRound(master_seed \o IndexBytes(index))))

derive_child_seed(master_seed, index) ==
  IF Len(master_seed) < MIN_SEED_LEN THEN Throw("InvalidInput")
  ELSE Ok(Take48(MapRound(master_seed \o IndexBytes(index))))

keypair_from_index(master_seed, index) ==
  LET childSeed == derive_child_seed(master_seed, index)
  IN IF childSeed.kind # "ok" THEN childSeed ELSE keypair_from_seed(childSeed.val)

\* ------------------------------------------------------------------------
\* The mock wasm module, src/src/wasm/falcon_wasm.js
\* ------------------------------------------------------------------------
mw_keypair_from_seed(seed) ==
  IF Len(seed) < MIN_SEED_LEN THEN Throw("InvalidInput")
  ELSE LET seedHash == simpleHash(seed)
       IN Ok([public_key |->
                Arr([i \in 1..PK_LEN |-> At(seedHash, (i - 1) % HASH_LEN)], PK_LEN),
              secret_key |->
                Arr([i \in 1..SK_LEN |->
                       At(seedHash, ((i - 1) + SK_OFFSET) % HASH_LEN)], SK_LEN)])

\* signature[i] = hash[i % 32] over hash = simpleHash(msg ++ whole key)
Repeat(hash, n) == Arr([i \in 1..n |-> At(hash, (i - 1) % HASH_LEN)], n)

mw_sign(message, secret_key) ==
  IF Len(secret_key) = 0 THEN Throw("InvalidInput")
  ELSE Ok(Repeat(simpleHash(message \o secret_key), MW_SIG_LEN))

mw_verify(message, signature, public_key) ==
  IF Len(signature) = 0 \/ Len(public_key) = 0 THEN Ok(FALSE)
  ELSE Ok(Repeat(simpleHash(message \o public_key), Len(signature)) = signature)

\* n rounds of derived = simpleHash(derived), split in halves
RECURSIVE HashRounds(_, _)
HashRounds(derived, n) ==
  IF n = 0 THEN derived
  ELSE IF n = 1 THEN simpleHash(derived)
  ELSE LET first == HashRounds(derived, n \div 2)
       IN IF Len(first) = HASH_LEN THEN HashRounds(first, n - (n \div 2)) ELSE first

mw_seed_from_passphrase(passphrase, salt, iterations) ==
  IF Len(passphrase) = 0 THEN Throw("InvalidInput")
  ELSE IF Len(salt) < MIN_SALT_LEN THEN Throw("InvalidInput")
  ELSE IF iterations <= 0 THEN Throw("InvalidInput")
  ELSE Ok(Take48(HashRounds(passphrase \o salt, Min(iterations, MAX_ROUNDS))))

mw_keypair_from_passphrase(passphrase, salt, iterations) ==
  LET seed == mw_seed_from_passphrase(passphrase, salt, iterations)
  IN IF seed.kind # "ok" THEN seed ELSE mw_keypair_from_seed(seed.val)

\* as mw_derive_child_seed, leaving out the highest byte of the index
mw_derive_child_seed_low24(master_seed, index) ==
  IF Len(master_seed) < MIN_SEED_LEN THEN Throw("InvalidInput")
  ELSE Ok(Take48(simpleHash(master_seed \o <<0>> \o Tail(IndexBytes(index)))))

mw_derive_child_seed(master_seed, index) ==
  IF Len(master_seed) < MIN_SEED_LEN THEN Throw("InvalidInput")
  ELSE Ok(Take48(simpleHash(master_seed \o IndexBytes(index))))

mw_keypair_from_index(master_seed, index) ==
  LET childSeed == mw_derive_child_seed(master_seed, index)
  IN IF childSeed.kind # "ok" THEN childSeed ELSE mw_keypair_from_seed(childSeed.val)

\* ------------------------------------------------------------------------
\* createMockWasmModule of src/src/components/FalconProvider.tsx: the same
\* derivations as above, but sign and verify call createMockWasmModule().sign
\* and .verify, that is themselves, until the call stack is exhausted.
\* ------------------------------------------------------------------------
RECURSIVE fb2_sign_at(_, _, _)
fb2_sign_at(message, secret_key, depth) ==
  IF depth >= MaxCallDepth THEN Throw("RangeError")
  ELSE fb2_sign_at(message, secret_key, depth + 1)

fb2_sign(message, secret_key) == fb2_sign_at(message, secret_key, 0)

RECURSIVE fb2_verify_at(_, _, _, _)
fb2_verify_at(message, signature, public_key, depth) ==
  IF depth >= MaxCallDepth THEN Throw("RangeError")
  ELSE fb2_verify_at(message, signature, public_key, depth + 1)

fb2_verify(message, signature, public_key) ==
  fb2_verify_at(message, signature, public_key, 0)

\* ------------------------------------------------------------------------
\* The real-backend wrapper, src/wasm/falcon_wasm.js.  The native functions
\* (_falcon_keypair_from_seed, _falcon_sign, _falcon_verify,
\* _falcon_generate_seed) are outside the repository: their return code and
\* the bytes they leave in the heap are inputs, `native`.
\* ------------------------------------------------------------------------
\* Array.from(new Uint8Array(HEAPU8.buffer, ptr, n)): n bytes, whatever they are
HeapBytes(fill, n) == Arr([i \in 1..n |-> fill], n)

rw_generate_seed(ready, native) ==
  IF ~ready THEN Throw("NotInitialized")
  ELSE Ok(HeapBytes(native.fill, MIN_SEED_LEN))

rw_keypair_from_seed(ready, seed, native) ==
  IF ~ready THEN Throw("NotInitialized")
  ELSE IF Len(seed) < MIN_SEED_LEN THEN Throw("InvalidInput")
  ELSE IF native.rc # 0 THEN Throw("NativeFailure")
  ELSE Ok([public_key |-> HeapBytes(native.fill, PK_LEN),
           secret_key |-> HeapBytes(native.fill, SK_LEN)])

\* native.rc is the signature length _falcon_sign returns, negative on failure
rw_sign(ready, message, secret_key, native) ==
  IF ~ready THEN Throw("NotInitialized")
  ELSE IF native.rc < 0 THEN Throw("NativeFailure")
  ELSE Ok(HeapBytes(native.fill, native.rc))

rw_verify(ready, message, signature, public_key, native) ==
  IF ~ready THEN Throw("NotInitialized")
  ELSE Ok(native.rc = 1)

\* The calls of _malloc and _free an operation makes, in order, up to its
\* return or throw: <<"malloc", "p">> for p = wasmModule._malloc(..) and
\* <<"free", "p">> for wasmModule._free(p).  The wrapper has no try/finally:
\* a statement that throws ends the operation where it stands.
\*   lens    the length of each argument, -1 for an argument that is null or
\*           undefined (reading its length throws a TypeError)
\*   native  rc, the number the native function returns, and exit: "returns",
\*           "traps" (the native call throws), "overruns" (_falcon_sign
\*           returns a length that reaches past the end of the heap, so
\*           new Uint8Array(buffer, sigPtr, sigLen) throws a RangeError)
rw_heap(fn, ready, lens, native) ==
  LET malloc(ptrs) == [k \in 1..Len(ptrs) |-> <<"malloc", ptrs[k]>>]
      free(ptrs) == [k \in 1..Len(ptrs) |-> <<"free", ptrs[k]>>]
  IN IF ~ready THEN <<>>
     ELSE CASE fn = "generate_seed" ->
                 malloc(<<"seedPtr">>)
                   \o IF native.exit = "traps" THEN <<>>
                      ELSE free(<<"seedPtr">>)
            [] fn = "keypair_from_seed" ->
                 IF lens[1] < MIN_SEED_LEN THEN <<>>
                 ELSE malloc(<<"seedPtr", "pkPtr", "skPtr">>)
                        \o IF native.exit = "traps" THEN <<>>
                           ELSE IF native.rc # 0
                           THEN free(<<"seedPtr", "pkPtr", "skPtr">>)
                           ELSE free(<<"seedPtr", "pkPtr", "skPtr">>)
            [] fn = "sign" ->
                 IF lens[1] < 0 THEN <<>>
                 ELSE malloc(<<"msgPtr">>)
                        \o IF lens[2] < 0 THEN <<>>
                           ELSE malloc(<<"skPtr", "sigPtr">>)
                                  \o IF native.exit = "traps" THEN <<>>
                                     ELSE IF native.rc < 0
                                     THEN free(<<"msgPtr", "skPtr", "sigPtr">>)
                                     ELSE IF native.exit = "overruns" THEN <<>>
                                     ELSE free(<<"msgPtr", "skPtr", "sigPtr">>)
            [] OTHER ->
                 IF lens[1] < 0 THEN <<>>
                 ELSE malloc(<<"msgPtr">>)
                        \o IF lens[2] < 0 THEN <<>>
                           ELSE malloc(<<"sigPtr">>)
                                  \o IF lens[3] < 0 THEN <<>>
                                     ELSE malloc(<<"pkPtr">>)
                                            \o IF native.exit = "traps" THEN <<>>
                                               ELSE free(<<"msgPtr", "sigPtr", "pkPtr">>)

\* the buffers still allocated after the calls of a trace, starting from live
RECURSIVE HeapAfter(_, _)
HeapAfter(live, trace) ==
  IF trace = <<>> THEN live
  ELSE LET ev == Head(trace)
       IN HeapAfter(IF ev[1] = "malloc" THEN live (+) SetToBag({ev[2]})
                    ELSE live (-) SetToBag({ev[2]}),
                    Tail(trace))

\* ------------------------------------------------------------------------
\* The modules loadWasm may bind to wasmModule, and what each exports
\* ------------------------------------------------------------------------
\*   "fallback"   createMockWasmModule() of part_000
\*   "fallbackB"  createMockWasmModule() of src/src/components/FalconProvider.tsx
\*   "mockwasm"   src/src/wasm/falcon_wasm.js
\*   "real"       src/wasm/falcon_wasm.js
\*   "partial"    a loaded module that exports only init and generate_seed
Derivations ==
  {"seed_from_passphrase", "keypair_from_passphrase", "derive_child_seed",
   "keypair_from_index"}

Exports(mod) ==
  CASE mod = "fallback" ->
         {"init", "initSync", "generate_seed", "keypair_from_seed", "sign", "verify",
          "min_seed_length", "public_key_length", "secret_key_length"} \cup Derivations
    [] mod = "fallbackB" ->
         {"init", "initSync", "generate_seed", "keypair_from_seed", "sign", "verify",
          "Constants"} \cup Derivations
    [] mod = "mockwasm" ->
         {"default", "init", "initSync", "generate_seed", "keypair_from_seed", "sign",
          "verify", "min_seed_length", "public_key_length", "secret_key_length"}
         \cup Derivations
    [] mod = "real" ->
         {"default", "init", "initSync", "generate_seed", "keypair_from_seed", "sign",
          "verify", "min_seed_length", "public_key_length", "secret_key_length",
          "signature_length", "KeyPair"}
    [] mod = "partial" -> {"init", "generate_seed"}
    [] OTHER -> {}

Has(mod, fn) == fn \in Exports(mod)

\* wasmModule.<fn>(...): calling a function the module lacks is a TypeError.
\* env.ready is the real wrapper's wasmReady, env.native the native outcome,
\* env.random the bytes drawn by crypto.getRandomValues / Math.random.
Mod_generate_seed(mod, env) ==
  IF ~Has(mod, "generate_seed") THEN Throw("TypeError")
  ELSE IF mod = "real" THEN rw_generate_seed(env.ready, env.native)
  ELSE Ok(env.random)

Mod_keypair_from_seed(mod, seed, env) ==
  IF ~Has(mod, "keypair_from_seed") THEN Throw("TypeError")
  ELSE CASE mod = "mockwasm" -> mw_keypair_from_seed(seed)
         [] mod = "real" -> rw_keypair_from_seed(env.ready, seed, env.native)
         [] OTHER -> keypair_from_seed(seed)

Mod_seed_from_passphrase(mod, passphrase, salt, iterations) ==
  IF ~Has(mod, "seed_from_passphrase") THEN Throw("TypeError")
  ELSE IF mod = "mockwasm" THEN mw_seed_from_passphrase(passphrase, salt, iterations)
  ELSE seed_from_passphrase(passphrase, salt, iterations)

Mod_keypair_from_passphrase(mod, passphrase, salt, iterations) ==
  IF ~Has(mod, "keypair_from_passphrase") THEN Throw("TypeError")
  ELSE IF mod = "mockwasm" THEN mw_keypair_from_passphrase(passphrase, salt, iterations)
  ELSE keypair_from_passphrase(passphrase, salt, iterations)

Mod_derive_child_seed(mod, master_seed, index) ==
  IF ~Has(mod, "derive_child_seed") THEN Throw("TypeError")
  ELSE IF mod = "mockwasm" THEN mw_derive_child_seed(master_seed, index)
  ELSE derive_child_seed(master_seed, index)

Mod_keypair_from_index(mod, master_seed, index) ==
  IF ~Has(mod, "keypair_from_index") THEN Throw("TypeError")
  ELSE IF mod = "mockwasm" THEN mw_keypair_from_index(master_seed, index)
  ELSE keypair_from_index(master_seed, index)

Mod_sign(mod, message, secret_key, env) ==
  IF ~Has(mod, "sign") THEN Throw("TypeError")
  ELSE CASE mod = "mockwasm" -> mw_sign(message, secret_key)
         [] mod = "real" -> rw_sign(env.ready, message, secret_key, env.native)
         [] mod = "fallbackB" -> fb2_sign(message, secret_key)
         [] OTHER -> sign(message, secret_key)

Mod_verify(mod, message, signature, public_key, env) ==
  IF ~Has(mod, "verify") THEN Throw("TypeError")
  ELSE CASE mod = "mockwasm" -> mw_verify(message, signature, public_key)
         [] mod = "real" -> rw_verify(env.ready, message, signature, public_key, env.native)
         [] mod = "fallbackB" -> fb2_verify(message, signature, public_key)
         [] OTHER -> verify(message, signature, public_key)

\* ------------------------------------------------------------------------
\* falconWasm: the interface loadWasm builds around wasmModule and publishes.
\* provider "A" is FalconProvider of part_000, provider "B" the one of
\* src/src/components/FalconProvider.tsx.
\* ------------------------------------------------------------------------
\* provider A reads result.public_key as an array or calls it; provider B
\* always calls it, which is a TypeError on a KeyPair with array fields
KeyPairOf(prov, mod, result) ==
  IF result.kind # "ok" THEN result
  ELSE IF prov = "B" /\ mod \in {"mockwasm", "real"} THEN Throw("TypeError")
  ELSE Ok([publicKey |-> result.val.public_key, secretKey |-> result.val.secret_key])

fw_generate_seed(prov, mod, env) == Mod_generate_seed(mod, env)

fw_keypair_from_seed(prov, mod, seed, env) ==
  KeyPairOf(prov, mod, Mod_keypair_from_seed(mod, seed, env))

fw_seed_from_passphrase(prov, mod, passphrase, salt, iterations) ==
  Mod_seed_from_passphrase(mod, passphrase, salt, iterations)

fw_keypair_from_passphrase(prov, mod, passphrase, salt, iterations, env) ==
  IF prov = "A" /\ Has(mod, "keypair_from_passphrase")
  THEN LET seed == Mod_seed_from_passphrase(mod, passphrase, salt, iterations)
       IN IF seed.kind # "ok" THEN seed
          ELSE fw_keypair_from_seed(prov, mod, seed.val, env)
  ELSE KeyPairOf(prov, mod,
                 Mod_keypair_from_passphrase(mod, passphrase, salt, iterations))

fw_derive_child_seed(prov, mod, masterSeed, index) ==
  Mod_derive_child_seed(mod, masterSeed, index)

fw_keypair_from_index(prov, mod, masterSeed, index) ==
  KeyPairOf(prov, mod, Mod_keypair_from_index(mod, masterSeed, index))

\* provider A: wasmModule.sign ? wasmModule.sign(..) : createMockWasmModule().sign(..)
fw_sign(prov, mod, message, secretKey, env) ==
  IF prov = "A" /\ ~Has(mod, "sign") THEN sign(message, secretKey)
  ELSE Mod_sign(mod, message, secretKey, env)

fw_verify(prov, mod, message, signature, publicKey, env) ==
  IF prov = "A" /\ ~Has(mod, "verify") THEN verify(message, signature, publicKey)
  ELSE Mod_verify(mod, message, signature, publicKey, env)

\* ------------------------------------------------------------------------
\* Inputs
\* ------------------------------------------------------------------------
\* seeds base, base + step, base + 2 step, ... of the lengths around 48
SeedGen(n, base, step) == Arr([i \in 1..n |-> (base + step * (i - 1)) % 256], n)

SeedLens == {0, MIN_SEED_LEN - 1} \cup (MIN_SEED_LEN..(MIN_SEED_LEN + MaxExtraSeedLen))

Seeds ==
  {SeedGen(n, base, step) : n \in SeedLens, base \in 0..MaxSeedBase, step \in 0..MaxSeedStep}

MsgGen(n) == Arr([i \in 1..n |-> (77 * i) % 256], n)

Msgs == {MsgGen(n) : n \in 0..MaxMsgLen}

Indexes == 0..MaxIndex

Passphrases == {<<>>, <<112, 119>>}

Salts == {SeedGen(MIN_SALT_LEN - 1, 1, 1), SeedGen(MIN_SALT_LEN, 1, 1)}

IterationCounts == -1..MaxIterations

\* what the native functions of the real backend may answer
Natives == {[rc |-> rc, fill |-> fill] : rc \in {-1, 0, 1, SIG_LEN}, fill \in 0..MaxNativeFill}

NoNative == [rc |-> 0, fill |-> 0]

\* the native answers that matter to a module: one for every other module
NativesOf(mod) == IF mod = "real" THEN Natives ELSE {NoNative}

Env(ready, native, random) == [ready |-> ready, native |-> native, random |-> random]

\* secret keys given to sign directly: empty, shorter than the pattern offset,
\* ending inside the pattern, longer than the pattern
GivenKeys ==
  {<<>>, <<7>>, SeedGen(SK_OFFSET, 3, 1), SeedGen(SK_OFFSET + 1, 3, 1),
   SeedGen(PATTERN_END + 1, 3, 1)}

\* what is handed to verify after sign(message) returned signature for the keys
Tampers == {"none", "truncated", "extended", "flipped", "emptySig", "emptyKey", "otherMsg"}

TamperedSig(signature, t) ==
  CASE t = "truncated" -> SubSeq(signature, 1, Len(signature) - 1)
    [] t = "extended" -> Append(signature, 0)
    [] t = "flipped" /\ Len(signature) > 0 -> [signature EXCEPT ![1] = (@ + 1) % 256]
    [] t = "emptySig" -> <<>>
    [] OTHER -> signature

TamperedKey(publicKey, t) == IF t = "emptyKey" THEN <<>> ELSE publicKey

TamperedMsg(message, t) == IF t = "otherMsg" THEN Append(message, 1) ELSE message

\* the signature handed to verify: the one sign returned ("signed"), or the one
\* the fallback's verify accepts for this message and public key ("accepted")
Bases == {"signed", "accepted"}

AcceptedSig(message, publicKey) ==
  Expand(simpleHash(message \o Slice(publicKey, 0, HASH_LEN)), SIG_LEN)

BaseSig(base, signed, message, publicKey) ==
  IF base = "accepted" THEN AcceptedSig(message, publicKey) ELSE signed

\* ------------------------------------------------------------------------
\* State
\* ------------------------------------------------------------------------
VARIABLES
  engine,   \* the published interface under test: [provider, mod]
  seedIn,   \* the seed the calls below are given
  keys,     \* the last key pair call: [op, out]
  sig,      \* the last sign call: [message, out]
  call      \* the last call of all: [op, arg, out]

opVars == <<engine, seedIn, keys, sig, call>>

VARIABLES
  provider,    \* "A": FalconProvider of part_000; "B": of src/src/components
  wasmPath,    \* the wasmPath prop, as the module served there
  effect,      \* TRUE while the effect that calls loadWasm has yet to run
  loads,       \* the runs of loadWasm, in the order they started
  wasm,        \* React state: "null", or the module falconWasm wraps
  isReady,     \* React state
  error,       \* React state: "null" or the error set
  wasmReady,   \* wasmReady of the real-backend wrapper
  hook,        \* the last call of a useFalcon operation:
               \* [op, ready, reached, native, shape]
  wrapper,     \* the real-backend wrapper and the calls of its init():
               \* [env, moduleFactory, wasmModule, scripts, created, inits, pc]
  kept         \* [wasm, isReady] of the render whose callbacks a component
               \* has kept (in a handler, a timer, a continuation); at first
               \* those of the first render, useState(null), useState(false)

provVars == <<provider, wasmPath, effect, loads, wasm, isReady, error, wasmReady, hook,
              wrapper, kept>>

vars == <<engine, seedIn, keys, sig, call,
          provider, wasmPath, effect, loads, wasm, isReady, error, wasmReady, hook,
          wrapper, kept>>

\* the wrapper module as loaded: let wasmModule = null (0), let moduleFactory
\* = null (FALSE), and no call of init() made
NoInit == [env |-> "browser", moduleFactory |-> FALSE, wasmModule |-> 0,
           scripts |-> 0, created |-> 0, inits |-> 0, pc |-> <<>>]

NoHook == [op |-> "none", ready |-> FALSE, reached |-> FALSE, native |-> NoNative,
           shape |-> [kind |-> "none", lens |-> <<>>]]

\* the provider at rest, for the specification of the operations alone
ProviderIdle ==
  /\ provider = "A"
  /\ wasmPath = "none"
  /\ effect = FALSE
  /\ loads = <<>>
  /\ wasm = "null"
  /\ isReady = FALSE
  /\ error = "null"
  /\ wasmReady = FALSE
  /\ hook = NoHook
  /\ wrapper = NoInit
  /\ kept = [wasm |-> "null", isReady |-> FALSE]

NoOut == [kind |-> "none", val |-> <<>>]

Engines ==
  {[provider |-> "A", mod |-> "fallback"], [provider |-> "A", mod |-> "mockwasm"],
   [provider |-> "A", mod |-> "real"], [provider |-> "B", mod |-> "fallbackB"]}

\* ------------------------------------------------------------------------
\* The operations of the published interface, applied to drawn inputs
\* ------------------------------------------------------------------------
InitOps ==
  /\ engine \in Engines
  /\ seedIn \in Seeds
  /\ keys = [op |-> "none", out |-> NoOut]
  /\ sig = [message |-> <<>>, out |-> NoOut]
  /\ call = [op |-> "none", arg |-> <<>>, out |-> NoOut]
  /\ ProviderIdle

Fresh == call.op = "none"

OpGenerateSeed ==
  /\ Fresh
  /\ \E native \in NativesOf(engine.mod), random \in {s \in Seeds : Len(s) = MIN_SEED_LEN} :
       call' = [op |-> "generate_seed", arg |-> <<>>,
                out |-> fw_generate_seed(engine.provider, engine.mod,
                                         Env(TRUE, native, random))]
  /\ UNCHANGED <<engine, seedIn, keys, sig>>
  /\ UNCHANGED provVars

OpKeypairFromSeed ==
  /\ Fresh
  /\ \E native \in NativesOf(engine.mod) :
       LET out == fw_keypair_from_seed(engine.provider, engine.mod, seedIn,
                                       Env(TRUE, native, <<>>))
       IN /\ keys' = [op |-> "keypair_from_seed", out |-> out]
          /\ call' = [op |-> "keypair_from_seed", arg |-> <<>>, out |-> out]
  /\ UNCHANGED <<engine, seedIn, sig>>
  /\ UNCHANGED provVars

\* the passphrase calls take no seed: they are made once, in the behaviours of
\* the empty seed
OpSeedFromPassphrase ==
  /\ Fresh
  /\ seedIn = <<>>
  /\ \E passphrase \in Passphrases, salt \in Salts, iterations \in IterationCounts :
       call' = [op |-> "seed_from_passphrase",
                arg |-> <<Len(passphrase), Len(salt), iterations>>,
                out |-> fw_seed_from_passphrase(engine.provider, engine.mod,
                                                passphrase, salt, iterations)]
  /\ UNCHANGED <<engine, seedIn, keys, sig>>
  /\ UNCHANGED provVars

OpKeypairFromPassphrase ==
  /\ Fresh
  /\ seedIn = <<>>
  /\ \E passphrase \in Passphrases, salt \in Salts, iterations \in IterationCounts :
       LET out == fw_keypair_from_passphrase(engine.provider, engine.mod, passphrase,
                                             salt, iterations, Env(TRUE, NoNative, <<>>))
       IN /\ keys' = [op |-> "keypair_from_passphrase", out |-> out]
          /\ call' = [op |-> "keypair_from_passphrase",
                      arg |-> <<Len(passphrase), Len(salt), iterations>>, out |-> out]
  /\ UNCHANGED <<engine, seedIn, sig>>
  /\ UNCHANGED provVars

OpDeriveChildSeed ==
  /\ Fresh
  /\ \E index \in Indexes :
       call' = [op |-> "derive_child_seed", arg |-> <<index>>,
                out |-> fw_derive_child_seed(engine.provider, engine.mod, seedIn, index)]
  /\ UNCHANGED <<engine, seedIn, keys, sig>>
  /\ UNCHANGED provVars

OpKeypairFromIndex ==
  /\ Fresh
  /\ \E index \in Indexes :
       LET out == fw_keypair_from_index(engine.provider, engine.mod, seedIn, index)
       IN /\ keys' = [op |-> "keypair_from_index", out |-> out]
          /\ call' = [op |-> "keypair_from_index", arg |-> <<index>>, out |-> out]
  /\ UNCHANGED <<engine, seedIn, sig>>
  /\ UNCHANGED provVars

\* sign with the secret key of the key pair just produced
OpSign ==
  /\ call.op = keys.op
  /\ keys.out.kind = "ok"
  /\ \E message \in Msgs, native \in NativesOf(engine.mod) :
       LET out == fw_sign(engine.provider, engine.mod, message, keys.out.val.secretKey,
                          Env(TRUE, native, <<>>))
       IN /\ sig' = [message |-> message, out |-> out]
          /\ call' = [op |-> "sign", arg |-> <<"own">>, out |-> out]
  /\ UNCHANGED <<engine, seedIn, keys>>
  /\ UNCHANGED provVars

\* sign with a secret key given by the caller
OpSignGiven ==
  /\ Fresh
  /\ \E message \in Msgs, secretKey \in GivenKeys, native \in NativesOf(engine.mod) :
       LET out == fw_sign(engine.provider, engine.mod, message, secretKey,
                          Env(TRUE, native, <<>>))
       IN /\ sig' = [message |-> message, out |-> out]
          /\ call' = [op |-> "sign", arg |-> <<"given", Len(secretKey)>>, out |-> out]
  /\ UNCHANGED <<engine, seedIn, keys>>
  /\ UNCHANGED provVars

\* verify what sign returned, as it is or tampered with, against the public key
OpVerify ==
  /\ call.op = "sign"
  /\ call.arg[1] = "own"
  /\ sig.out.kind = "ok"
  /\ \E base \in Bases, t \in Tampers,
        \* the real wrapper's verify reads the return code only
        native \in {n \in NativesOf(engine.mod) : n.fill = 0} :
       call' = [op |-> "verify", arg |-> <<base, t>>,
                out |-> fw_verify(engine.provider, engine.mod,
                                  TamperedMsg(sig.message, t),
                                  TamperedSig(BaseSig(base, sig.out.val, sig.message,
                                                      keys.out.val.publicKey), t),
                                  TamperedKey(keys.out.val.publicKey, t),
                                  Env(TRUE, native, <<>>))]
  /\ UNCHANGED <<engine, seedIn, keys, sig>>
  /\ UNCHANGED provVars

NextOps ==
  \/ OpGenerateSeed
  \/ OpKeypairFromSeed
  \/ OpSeedFromPassphrase
  \/ OpKeypairFromPassphrase
  \/ OpDeriveChildSeed
  \/ OpKeypairFromIndex
  \/ OpSign
  \/ OpSignGiven
  \/ OpVerify

SpecOps == InitOps /\ [][NextOps]_vars

\* ------------------------------------------------------------------------
\* Claims on the operations
\* ------------------------------------------------------------------------
KeypairOps == {"keypair_from_seed", "keypair_from_passphrase", "keypair_from_index"}

NonNative == {"fallback", "fallbackB", "mockwasm"}

\* C1: on the fallback of part_000, verify(M, sign(M, sk), pk) is true for the
\* key pair (pk, sk) of every seed of at least 48 bytes and every message M.
C1_RoundTrip ==
  ( /\ engine.mod = "fallback"
    /\ keys.op = "keypair_from_seed"
    /\ call.op = "verify"
    /\ call.arg = <<"signed", "none">> )
  => call.out = Ok(TRUE)

\* C2: in every key pair keypairFromSeed returns, secretKey[100..131] equals
\* publicKey[0..31] byte for byte (fallback and mock wasm module).
C2_PatternShared ==
  ( /\ engine.mod \in {"fallback", "mockwasm"}
    /\ call.op = "keypair_from_seed"
    /\ call.out.kind = "ok" )
  => Slice(call.out.val.secretKey, SK_OFFSET, PATTERN_END)
       = Slice(call.out.val.publicKey, 0, HASH_LEN)

\* C6: every key pair returned by keypairFromSeed, keypairFromPassphrase or
\* keypairFromIndex has a 897-byte public key and a 1281-byte secret key, on
\* the fallback, the mock wasm module and the real-backend wrapper.
C6_KeyLengths ==
  (call.op \in KeypairOps /\ call.out.kind = "ok")
  => /\ Len(call.out.val.publicKey) = PK_LEN
     /\ Len(call.out.val.secretKey) = SK_LEN

C6_Witness ==
  /\ engine.mod = "fallback"
  /\ call.op = "keypair_from_index"
  /\ call.out.kind = "ok"
  /\ Len(call.out.val.secretKey) = SK_LEN

\* C7: on every non-native backend sign returns exactly 666 bytes for every
\* message and every non-empty secret key.
C7_SignatureLength ==
  ( /\ engine.mod \in NonNative
    /\ call.op = "sign"
    /\ (call.arg[1] = "given" => call.arg[2] > 0) )
  => (call.out.kind = "ok" /\ Len(call.out.val) = SIG_LEN)

\* C8: keypairFromSeed, deriveChildSeed and keypairFromIndex throw InvalidInput
\* and return nothing for a seed shorter than 48 bytes, and succeed for a seed
\* of exactly 48 bytes (fallback and mock modules).
C8_SeedLengthBoundary ==
  ( /\ engine.mod \in NonNative
    /\ call.op \in {"keypair_from_seed", "derive_child_seed", "keypair_from_index"} )
  => /\ Len(seedIn) < MIN_SEED_LEN => call.out = Throw("InvalidInput")
     /\ Len(seedIn) = MIN_SEED_LEN => call.out.kind = "ok"

C8_Witness ==
  /\ engine.mod = "fallback"
  /\ call.op = "derive_child_seed"
  /\ Len(seedIn) = MIN_SEED_LEN - 1
  /\ call.out = Throw("InvalidInput")

\* C9: on the fallback, verify returns false, and does not throw, when the
\* signature is empty, the public key is empty, or the signature is not 666
\* bytes long (665, 667), whatever the message.
C9_MalformedRejected ==
  ( /\ engine.mod = "fallback"
    /\ call.op = "verify"
    /\ call.arg[2] \in {"truncated", "extended", "emptySig", "emptyKey"} )
  => call.out = Ok(FALSE)

C9_Witness ==
  /\ engine.mod = "fallback"
  /\ call.op = "verify"
  /\ call.arg = <<"accepted", "truncated">>
  /\ call.out = Ok(FALSE)

\* ------------------------------------------------------------------------
\* useFalcon: the operations of the hook
\* ------------------------------------------------------------------------
HookOps ==
  {"generateSeed", "keypairFromSeed", "seedFromPassphrase", "keypairFromPassphrase",
   "deriveChildSeed", "keypairFromIndex", "sign", "verify", "getConstants"}

\* provider A's falconWasm has min_seed_length, public_key_length and
\* secret_key_length, each falling back to the number when the module lacks
\* the function; provider B's has them under Constants only, so that
\* wasm.min_seed_length() is a call of undefined
fw_constants(prov, mod) ==
  IF prov = "B" THEN Throw("TypeError")
  ELSE Ok(<<MIN_SEED_LEN, PK_LEN, SK_LEN>>)

\* valid arguments for each operation
ValidSeed == SeedGen(MIN_SEED_LEN, 0, 1)
ValidPassphrase == <<112, 119>>
ValidSalt == SeedGen(MIN_SALT_LEN, 1, 1)
ValidMessage == MsgGen(1)
ValidSecretKey == HeapBytes(1, SK_LEN)
ValidPublicKey == HeapBytes(1, PK_LEN)
ValidSignature == HeapBytes(1, SIG_LEN)

\* wasm.<operation>(valid arguments) on the falconWasm built around mod
Surface(prov, mod, op, env) ==
  CASE op = "generateSeed" -> fw_generate_seed(prov, mod, env)
    [] op = "keypairFromSeed" -> fw_keypair_from_seed(prov, mod, ValidSeed, env)
    [] op = "seedFromPassphrase" ->
         fw_seed_from_passphrase(prov, mod, ValidPassphrase, ValidSalt, 1)
    [] op = "keypairFromPassphrase" ->
         fw_keypair_from_passphrase(prov, mod, ValidPassphrase, ValidSalt, 1, env)
    [] op = "deriveChildSeed" -> fw_derive_child_seed(prov, mod, ValidSeed, 0)
    [] op = "keypairFromIndex" -> fw_keypair_from_index(prov, mod, ValidSeed, 0)
    [] op = "sign" -> fw_sign(prov, mod, ValidMessage, ValidSecretKey, env)
    [] op = "verify" ->
         fw_verify(prov, mod, ValidMessage, ValidSignature, ValidPublicKey, env)
    [] OTHER -> fw_constants(prov, mod)

\* what a caller can tell of an outcome without reading the bytes: the kind,
\* and the lengths of the arrays returned (the numbers, for getConstants)
ShapeOf(op, out) ==
  IF out.kind # "ok" THEN [kind |-> out.kind, lens |-> <<>>]
  ELSE CASE op \in {"keypairFromSeed", "keypairFromPassphrase", "keypairFromIndex"} ->
              [kind |-> "ok", lens |-> <<Len(out.val.publicKey), Len(out.val.secretKey)>>]
         [] op = "verify" -> [kind |-> "ok", lens |-> <<>>]
         [] op = "getConstants" -> [kind |-> "ok", lens |-> out.val]
         [] OTHER -> [kind |-> "ok", lens |-> <<Len(out.val)>>]

\* the shape the interface contract gives each operation
ContractShape(op) ==
  CASE op \in {"keypairFromSeed", "keypairFromPassphrase", "keypairFromIndex"} ->
         [kind |-> "ok", lens |-> <<PK_LEN, SK_LEN>>]
    [] op \in {"generateSeed", "seedFromPassphrase", "deriveChildSeed"} ->
         [kind |-> "ok", lens |-> <<MIN_SEED_LEN>>]
    [] op = "sign" -> [kind |-> "ok", lens |-> <<SIG_LEN>>]
    [] op = "verify" -> [kind |-> "ok", lens |-> <<>>]
    [] OTHER -> [kind |-> "ok", lens |-> <<MIN_SEED_LEN, PK_LEN, SK_LEN>>]

PublishedMods == {"fallback", "fallbackB", "mockwasm", "real", "partial"}

\* only the real wrapper reads its wasmReady and the native answers
InitializedOf(mod, ready) == mod # "real" \/ ready

SurfaceCases ==
  {c \in {"A", "B"} \X PublishedMods \X HookOps \X BOOLEAN \X Natives :
     /\ c[5] \in NativesOf(c[2])
     /\ c[4] = InitializedOf(c[2], c[4])}

\* the shapes of all the calls the hook can make on valid arguments
SurfaceShapes ==
  [c \in SurfaceCases |->
     ShapeOf(c[3], Surface(c[1], c[2], c[3], Env(c[4], c[5], ValidSeed)))] @@ <<>>

SurfaceShape(prov, mod, op, ready, native) ==
  SurfaceShapes[<<prov, mod, op, InitializedOf(mod, ready), native>>]

\* what the current render shows: const { wasm, isReady } = useFalconContext()
Rendered == [wasm |-> wasm, isReady |-> isReady]

\* an operation made by useCallback(..., [wasm, isReady]) in the render that
\* showed bound, called now:
\*   if (!wasm || !isReady) throw new Error('Falcon WASM is not ready');
\*   return wasm.<operation>(...)
\* ready tells whether the provider is Ready at the time of the call
HookCall(op, native, bound) ==
  IF bound.wasm = "null" \/ ~bound.isReady
  THEN [op |-> op, ready |-> wasm # "null" /\ isReady, reached |-> FALSE,
        native |-> native, shape |-> [kind |-> "NotReady", lens |-> <<>>]]
  ELSE [op |-> op, ready |-> wasm # "null" /\ isReady, reached |-> TRUE,
        native |-> native,
        shape |-> SurfaceShape(provider, bound.wasm, op, wasmReady, native)]

\* a component calls an operation of the hook, through the callback of the
\* current render or through one it has kept.  The call is synchronous: it
\* returns before the provider takes another step.  The shape of its result
\* depends on the native return code, which keypair_from_seed, sign and
\* verify read, not on the bytes the native function leaves in the heap.
Hook ==
  /\ hook = NoHook
  /\ \E bound \in {Rendered, kept}, op \in HookOps :
       \E native \in {n \in NativesOf(bound.wasm) : n.fill = 0} :
         /\ op \notin {"keypairFromSeed", "sign", "verify"} => native.rc = 0
         /\ hook' = HookCall(op, native, bound)
  /\ UNCHANGED <<provider, wasmPath, effect, loads, wasm, isReady, error, wasmReady>>
  /\ UNCHANGED <<opVars, wrapper, kept>>

\* a component keeps the callbacks of the current render
Keep ==
  /\ hook = NoHook
  /\ kept # Rendered
  /\ kept' = Rendered
  /\ UNCHANGED <<provider, wasmPath, effect, loads, wasm, isReady, error, wasmReady, hook>>
  /\ UNCHANGED <<opVars, wrapper>>

\* ------------------------------------------------------------------------
\* FalconProvider: loadWasm, run by the effect on mount and whenever wasmPath
\* changes.  Each run is a record of loads; it stops at its awaits, and the
\* runs in flight settle in any order.
\* ------------------------------------------------------------------------
\* what is served at wasmPath:
\*   "none"      nothing the loader can use (the import rejects, the fetch
\*               rejects or returns text that is not a script)
\*   "real"      src/wasm/falcon_wasm.js, an ES module
\*   "mockwasm"  src/src/wasm/falcon_wasm.js, an ES module
\*   "partial"   an ES module exporting init and generate_seed only
\*   "script"    a script assigning init and generate_seed to module.exports
Served == {"none", "real", "mockwasm", "partial", "script"}

\* the kinds a provider tells apart: provider A imports, so a script is as
\* good as nothing; provider B evaluates the text as a script, so every ES
\* module fails alike ("mockwasm" stands for them)
ServedTo(prov) ==
  IF prov = "A" THEN Served \ {"script"} ELSE {"none", "mockwasm", "script"}

\* provider A: await import(`../wasm/${wasmModulePath}.js`)
ImportedModule(path) ==
  CASE path \in {"real", "mockwasm", "partial"} -> path
    [] OTHER -> "none"

\* provider B: new Function('exports', 'module', wasmCode + ...) is a
\* SyntaxError on the export statements of an ES module; the module must
\* have generate_seed
EvaluatedModule(path) ==
  CASE path = "script" -> "partial"
    [] OTHER -> "none"

\* the promise of init() as the call returns it: already resolved by the mock
\* modules (return Promise.resolve()) and by the real wrapper once initialised
\* (if (wasmReady && wasmModule) return), pending otherwise
InitCalled(mod, ready) ==
  IF mod \in {"mockwasm", "fallback", "fallbackB"} \/ (mod = "real" /\ ready)
  THEN "returned"
  ELSE "pending"

\* if (!wasmModule.generate_seed || !wasmModule.keypair_from_seed) throw
Capable(mod) == Has(mod, "generate_seed") /\ Has(mod, "keypair_from_seed")

\* as Loaded, not waiting for the initialisation to succeed
LoadedUninitialized(mod, resolved) == Capable(mod)

\* provider A's inner try ends without a throw: the awaited default() / init()
\* resolved and the check of the two functions passed
Loaded(mod, resolved) == resolved /\ Capable(mod)

\* a run of loadWasm: the path it was started with, the await it stands at,
\* the module it has bound to wasmModule, the promise of init() it awaits
\* ("none" before the call) and the failure it has met
NewLoad(path) ==
  [path |-> path, pc |-> "acquire", mod |-> "none", init |-> "none", failure |-> "none"]

\* setWasm(falconWasm); setIsReady(true); setError(null)
Publish(mod) ==
  /\ wasm' = mod
  /\ isReady' = TRUE
  /\ error' = "null"

\* The three state updates that end a run are rendered together when React
\* batches them, and one by one when it does not (updates made after an await
\* outside a batching root): the run then stands between two of its updates.
Updating == \E i \in DOMAIN loads : loads[i].pc \in {"setIsReady", "setError", "setNotReady"}

\* as Published, with setIsReady(true) called before setWasm
PublishedReadyFirst(i, ended, mod) ==
  \/ /\ loads' = ended
     /\ Publish(mod)
  \/ /\ loads' = [ended EXCEPT ![i].pc = "setError"]
     /\ isReady' = TRUE
     /\ UNCHANGED <<wasm, error>>

\* run i ends by publishing mod; ended is loads with the run's record closed
Published(i, ended, mod) ==
  \/ /\ loads' = ended
     /\ Publish(mod)
  \/ /\ loads' = [ended EXCEPT ![i].pc = "setIsReady"]
     /\ wasm' = mod
     /\ UNCHANGED <<isReady, error>>

\* run i ends in the outer catch: setError(error); setIsReady(false)
Failed(i, ended) ==
  \/ /\ loads' = ended
     /\ error' = "Error"
     /\ isReady' = FALSE
     /\ UNCHANGED wasm
  \/ /\ loads' = [ended EXCEPT ![i].pc = "setNotReady"]
     /\ error' = "Error"
     /\ UNCHANGED <<wasm, isReady>>

\* the next update of a run whose updates are rendered one by one:
\* setIsReady(true) then setError(null), or setIsReady(false)
Render(i) ==
  /\ hook = NoHook
  /\ loads[i].pc \in {"setIsReady", "setError", "setNotReady"}
  /\ CASE loads[i].pc = "setIsReady" ->
            /\ isReady' = TRUE
            /\ loads' = [loads EXCEPT ![i].pc = "setError"]
            /\ UNCHANGED <<wasm, error>>
       [] loads[i].pc = "setError" ->
            /\ error' = "null"
            /\ loads' = [loads EXCEPT ![i].pc = "done"]
            /\ UNCHANGED <<wasm, isReady>>
       [] OTHER ->
            /\ isReady' = FALSE
            /\ loads' = [loads EXCEPT ![i].pc = "done"]
            /\ UNCHANGED <<wasm, error>>
  /\ UNCHANGED hook
  /\ UNCHANGED <<provider, wasmPath, effect, wasmReady>>
  /\ UNCHANGED <<opVars, wrapper, kept>>

\* useEffect(() => { loadWasm(); }, [loadWasm]): loadWasm runs to its first await
StartLoad ==
  /\ hook = NoHook
  /\ effect
  /\ ~Updating
  /\ effect' = FALSE
  /\ loads' = Append(loads, NewLoad(wasmPath))
  /\ UNCHANGED hook
  /\ UNCHANGED <<provider, wasmPath, wasm, isReady, error, wasmReady>>
  /\ UNCHANGED <<opVars, wrapper, kept>>

\* the parent renders the provider with another wasmPath: loadWasm is a new
\* callback and the effect is due again.  The new path may serve what the
\* old one did (two paths with scripts alike; provider A imports
\* `../wasm/${wasmPath.replace('.js', '')}.js`, the wrapper again for
\* 'falcon_wasm' after 'falcon_wasm.js').  React runs the effect of a render
\* before it renders again.
ChangePath ==
  /\ hook = NoHook
  /\ ~Updating
  /\ ~effect
  /\ Len(loads) < MaxLoads
  /\ \E path \in ServedTo(provider) : wasmPath' = path
  /\ effect' = TRUE
  /\ UNCHANGED hook
  /\ UNCHANGED <<provider, loads, wasm, isReady, error, wasmReady>>
  /\ UNCHANGED <<opVars, wrapper, kept>>

\* the import (provider A) or the fetch (provider B) settles, and loadWasm
\* runs on to its next await, calling init() of the module in provider A, or
\* to its end
AcquireSettles(i) ==
  /\ hook = NoHook
  /\ loads[i].pc = "acquire"
  /\ ~Updating
  /\ \E arrived \in BOOLEAN :
       IF provider = "A"
       THEN IF ~arrived \/ ImportedModule(loads[i].path) = "none"
            THEN Published(i, [loads EXCEPT ![i].pc = "done", ![i].mod = "fallback",
                                             ![i].failure = "acquire"], "fallback")
            ELSE /\ loads' = [loads EXCEPT
                                ![i].pc = "init",
                                ![i].mod = ImportedModule(loads[i].path),
                                ![i].init = InitCalled(ImportedModule(loads[i].path),
                                                       wasmReady)]
                 /\ UNCHANGED <<wasm, isReady, error>>
       ELSE /\ loads' = IF arrived
                        THEN [loads EXCEPT ![i].pc = "text"]
                        ELSE [loads EXCEPT ![i].pc = "init", ![i].mod = "fallbackB",
                                           ![i].init = InitCalled("fallbackB", wasmReady),
                                           ![i].failure = "acquire"]
            /\ UNCHANGED <<wasm, isReady, error>>
  /\ UNCHANGED hook
  /\ UNCHANGED <<provider, wasmPath, effect, wasmReady>>
  /\ UNCHANGED <<opVars, wrapper, kept>>

\* provider B: await response.text() settles; the text is evaluated, init()
\* of the module is called and the run goes on to the await of its promise
TextSettles(i) ==
  /\ hook = NoHook
  /\ loads[i].pc = "text"
  /\ ~Updating
  /\ \E arrived \in BOOLEAN :
       LET got == IF arrived THEN EvaluatedModule(loads[i].path) ELSE "none"
       IN loads' = [loads EXCEPT
                      ![i].pc = "init",
                      ![i].mod = IF got = "none" THEN "fallbackB" ELSE got,
                      ![i].init = InitCalled(IF got = "none" THEN "fallbackB" ELSE got,
                                             wasmReady),
                      ![i].failure = IF got = "none" THEN "acquire" ELSE "none"]
  /\ UNCHANGED hook
  /\ UNCHANGED <<provider, wasmPath, effect, wasm, isReady, error, wasmReady>>
  /\ UNCHANGED <<opVars, wrapper, kept>>

\* the pending init() of a run's module ends: its promise is resolved, or
\* rejected (the script or the module does not load, _falcon_init throws).
\* The real wrapper's init resolves after wasmReady = true, in its own
\* continuation; loadWasm resumes in a later step.
InitCompletes(i) ==
  /\ hook = NoHook
  /\ loads[i].pc = "init"
  /\ loads[i].init = "pending"
  /\ ~Updating
  /\ \E resolved \in BOOLEAN :
       /\ wasmReady' = (wasmReady \/ (resolved /\ loads[i].mod = "real"))
       /\ loads' = [loads EXCEPT ![i].init = IF resolved THEN "resolved" ELSE "rejected"]
  /\ UNCHANGED hook
  /\ UNCHANGED <<provider, wasmPath, effect, wasm, isReady, error>>
  /\ UNCHANGED <<opVars, wrapper, kept>>

\* loadWasm resumes from await wasmModule.default() / init(), whose promise has
\* settled.  Provider A awaits it inside the inner try and checks the
\* capabilities after it; provider B awaits it after the inner try.
InitSettles(i) ==
  /\ hook = NoHook
  /\ loads[i].pc = "init"
  /\ loads[i].init # "pending"
  /\ ~Updating
  /\ LET mod == loads[i].mod
         resolved == loads[i].init # "rejected"
     IN IF provider = "A"
        THEN IF Loaded(mod, resolved)
             THEN Published(i, [loads EXCEPT ![i].pc = "done"], mod)
             ELSE Published(i, [loads EXCEPT
                                  ![i].pc = "done", ![i].mod = "fallback",
                                  ![i].failure = IF resolved THEN "capability"
                                                 ELSE "init"], "fallback")
        ELSE IF resolved
             THEN Published(i, [loads EXCEPT ![i].pc = "done"], mod)
             ELSE Failed(i, [loads EXCEPT ![i].pc = "done", ![i].failure = "init"])
  /\ UNCHANGED hook
  /\ UNCHANGED <<provider, wasmPath, effect, wasmReady>>
  /\ UNCHANGED <<opVars, wrapper, kept>>

\* the call has returned or thrown
HookReturns ==
  /\ hook # NoHook
  /\ hook' = NoHook
  /\ UNCHANGED <<provider, wasmPath, effect, loads, wasm, isReady, error, wasmReady>>
  /\ UNCHANGED <<opVars, wrapper, kept>>

Init ==
  /\ provider \in {"A", "B"}
  /\ wasmPath \in ServedTo(provider)
  /\ effect = TRUE
  /\ loads = <<>>
  /\ wasm = "null"
  /\ isReady = FALSE
  /\ error = "null"
  /\ wasmReady = FALSE
  /\ hook = NoHook
  /\ wrapper = NoInit
  /\ kept = [wasm |-> "null", isReady |-> FALSE]
  /\ engine = [provider |-> "A", mod |-> "fallback"]
  /\ seedIn = ValidSeed
  /\ keys = [op |-> "none", out |-> NoOut]
  /\ sig = [message |-> <<>>, out |-> NoOut]
  /\ call = [op |-> "none", arg |-> <<>>, out |-> NoOut]

Next ==
  \/ StartLoad
  \/ ChangePath
  \/ \E i \in DOMAIN loads : AcquireSettles(i)
  \/ \E i \in DOMAIN loads : TextSettles(i)
  \/ \E i \in DOMAIN loads : InitCompletes(i)
  \/ \E i \in DOMAIN loads : InitSettles(i)
  \/ \E i \in DOMAIN loads : Render(i)
  \/ Hook
  \/ Keep
  \/ HookReturns

Spec == Init /\ [][Next]_vars

\* ------------------------------------------------------------------------
\* Claims on the provider and the hook
\* ------------------------------------------------------------------------
\* a load ends in this step, after a failure of the acquisition, of init or
\* of the capability check
EndsAfterFailure(i) ==
  /\ i \in DOMAIN loads'
  /\ loads[i].pc # "done"
  /\ loads'[i].pc = "done"
  /\ loads'[i].failure # "none"

\* C3: whenever acquiring or initializing the backend fails, the load ends
\* with the fallback backend published, isReady true and error null; the
\* provider is not left with error set and isReady false.
C3_FailureRecovered ==
  [][\A i \in DOMAIN loads :
       EndsAfterFailure(i) =>
         /\ wasm' \in {"fallback", "fallbackB"}
         /\ isReady'
         /\ error' = "null"]_vars

\* C4: every operation of the hook invoked while the provider is not Ready
\* (wasm is null or isReady is false) throws the not-ready error and calls no
\* function of the backend.
C4_NotReadyGuard ==
  (hook.op # "none" /\ ~hook.ready) =>
    /\ hook.shape.kind = "NotReady"
    /\ ~hook.reached

\* the native answers of a working native library: keypair_from_seed returns
\* 0, sign returns the signature's length
Faithful(op, native) ==
  CASE op \in {"keypairFromSeed", "keypairFromPassphrase", "keypairFromIndex"} ->
         native.rc = 0
    [] op = "sign" -> native.rc = SIG_LEN
    [] OTHER -> TRUE

\* C5: once the provider is Ready, every operation of the published surface
\* invoked with valid inputs returns a result of the contract shape, whether
\* the backend behind it is the real wrapper or the fallback.
C5_ReadySurface ==
  (hook.reached /\ hook.op \in HookOps \ {"getConstants"}
     /\ Faithful(hook.op, hook.native)) =>
    hook.shape = ContractShape(hook.op)

\* C16: a loaded module that lacks generate_seed or keypair_from_seed is never
\* published as the backend: whatever is published has both functions.
C16_CapablePublished == wasm # "null" => Capable(wasm)

\* C17: when a load cycle starts after the earlier ones have ended, isReady is
\* false from its start until it completes, whatever was published before.
C17_LoadingNotReady ==
  (/\ Len(loads) > 0
   /\ loads[Len(loads)].pc \in {"acquire", "text", "init"}
   /\ \A j \in 1..(Len(loads) - 1) : loads[j].pc = "done")
    => ~isReady

\* C18: at most one run of loadWasm is in flight, suspended on acquiring or
\* initialising its module, at any time.
C18_OneLoadInFlight ==
  Cardinality({i \in DOMAIN loads : loads[i].pc \in {"acquire", "text", "init"}}) <= 1

\* C19: when the provider is Ready, getConstants publishes minSeedLength = 48,
\* publicKeyLength = 897, secretKeyLength = 1281 and signatureLength = 666,
\* whichever backend is published.
C19_ConstantsPublished ==
  (hook.op = "getConstants" /\ hook.reached)
    => hook.shape = [kind |-> "ok", lens |-> <<MIN_SEED_LEN, PK_LEN, SK_LEN, SIG_LEN>>]

\* C23: isReady is true with the real wrapper published only after its init
\* has completed: the wrapper is published only by a run of loadWasm that
\* resumes when the wrapper is initialised (wasmReady) already, it is
\* initialised in every state that shows it, and whenever an operation of
\* the hook reaches a backend, through the callbacks of the current render or
\* through kept ones, no call ends in the wrapper's not-initialised error.
C23_InitBeforeReady ==
  /\ [](wasm = "real" => wasmReady)
  /\ [](hook.reached => hook.shape.kind # "NotInitialized")
  /\ [][\A i \in DOMAIN loads :
          (loads[i].pc = "init" /\ loads'[i].pc # "init" /\ loads'[i].mod = "real")
            => wasmReady]_vars

\* the wrapper is published and called while a second run, which found it
\* initialised, still awaits its init()
C23_Witness ==
  /\ wasm = "real"
  /\ isReady
  /\ wasmReady
  /\ hook.reached
  /\ hook.op = "generateSeed"
  /\ hook.shape.kind = "ok"
  /\ \E i \in DOMAIN loads :
       loads[i].mod = "real" /\ loads[i].pc = "init" /\ loads[i].init = "returned"

\* C24: in every state the provider renders, whatever the interleaving of its
\* load cycles and of the single updates setWasm, setIsReady and setError,
\* isReady = true implies that wasm is not null.
C24_ReadyHasBackend == isReady => wasm # "null"

\* a run between its updates, ready, while another run is suspended
C24_Witness ==
  /\ isReady
  /\ wasm # "null"
  /\ \E i \in DOMAIN loads : loads[i].pc = "setError"
  /\ \E j \in DOMAIN loads : loads[j].pc \in {"acquire", "text", "init"}

\* C25: once every started load has completed, the published backend is the
\* one the latest load (the one for the latest wasmPath) ended with: a load
\* started earlier that settles later does not overwrite it.
C25_LatestLoadWins ==
  (/\ Len(loads) > 0
   /\ ~effect
   /\ \A i \in DOMAIN loads : loads[i].pc = "done"
   /\ ~(provider = "B" /\ loads[Len(loads)].failure = "init"))
    => wasm = loads[Len(loads)].mod

\* C14: seedFromPassphrase and keypairFromPassphrase fail with InvalidInput when
\* the passphrase is empty, when the salt has fewer than 8 bytes, or when
\* iterations is 0 or negative, and succeed otherwise (a passphrase of 2 bytes,
\* a salt of exactly 8 bytes, iterations = 1 among the cases).
C14_PassphraseValidation ==
  (call.op \in {"seed_from_passphrase", "keypair_from_passphrase"}
     /\ engine.mod \in NonNative)
    => IF call.arg[1] = 0 \/ call.arg[2] < MIN_SALT_LEN \/ call.arg[3] <= 0
       THEN call.out.kind = "InvalidInput"
       ELSE call.out.kind = "ok"

C14_Witness ==
  /\ engine.mod = "fallback"
  /\ call.op = "keypair_from_passphrase"
  /\ call.arg = <<2, MIN_SALT_LEN, -1>>
  /\ call.out.kind = "InvalidInput"

\* C20: on the fallback, sign always terminates, with a signature when the
\* secret key is not empty and with InvalidInput when it is empty, and verify
\* always terminates with a boolean; neither recurses without end.
C20_FallbackTerminates ==
  engine.mod \in {"fallback", "fallbackB"}
    => /\ (call.op = "sign" /\ call.arg[1] = "own") => call.out.kind = "ok"
       /\ (call.op = "sign" /\ call.arg[1] = "given")
            => call.out.kind = IF call.arg[2] = 0 THEN "InvalidInput" ELSE "ok"
       /\ call.op = "verify" => call.out.kind = "ok" /\ call.out.val \in BOOLEAN

\* C21: the fallback of the provider computes keypairFromSeed(seed) from
\* h = simpleHash(seed): publicKey[i] = h[i mod 32] for every i < 897 and
\* secretKey[i] = h[(i + 100) mod 32] for every i < 1281.
C21_FallbackKeysFromHash ==
  (/\ engine.mod \in {"fallback", "fallbackB"}
   /\ call.op = "keypair_from_seed"
   /\ call.out.kind = "ok")
    => LET h == simpleHash(seedIn)
       IN /\ \A i \in 0..(PK_LEN - 1) :
               At(call.out.val.publicKey, i) = At(h, i % HASH_LEN)
          /\ \A i \in 0..(SK_LEN - 1) :
               At(call.out.val.secretKey, i) = At(h, (i + SK_OFFSET) % HASH_LEN)

\* ------------------------------------------------------------------------
\* init() of the real-backend wrapper, called repeatedly or concurrently
\* ------------------------------------------------------------------------
\* wrapper.pc[c] is the position of the c-th call of init(): "idle" (not yet
\* made), "script" (awaiting the onload of its script element), "import"
\* (awaiting import()), "factory" (loadModuleFactory has resolved), "module"
\* (awaiting createModule), "returned" or "rejected".  wrapper.wasmModule is 0
\* for null and c for the instance the c-th call created.
InitWrapper ==
  /\ engine = [provider |-> "A", mod |-> "real"]
  /\ seedIn = ValidSeed
  /\ keys = [op |-> "none", out |-> NoOut]
  /\ sig = [message |-> <<>>, out |-> NoOut]
  /\ call = [op |-> "none", arg |-> <<>>, out |-> NoOut]
  /\ provider = "A"
  /\ wasmPath = "none"
  /\ effect = FALSE
  /\ loads = <<>>
  /\ wasm = "null"
  /\ isReady = FALSE
  /\ error = "null"
  /\ wasmReady = FALSE
  /\ hook = NoHook
  /\ kept = [wasm |-> "null", isReady |-> FALSE]
  /\ \E env \in {"browser", "node"} :
       wrapper = [NoInit EXCEPT !.env = env,
                                !.pc = [c \in 1..MaxInitCalls |-> "idle"]]

InitVars == <<engine, seedIn, keys, sig, call,
              provider, wasmPath, effect, loads, wasm, isReady, error, hook, kept>>

\* init() is called: the guard, then loadModuleFactory up to its first await
CallInit(c) ==
  /\ wrapper.pc[c] = "idle"
  /\ wrapper' =
       IF wasmReady /\ wrapper.wasmModule # 0
       THEN [wrapper EXCEPT !.pc[c] = "returned"]
       ELSE IF wrapper.moduleFactory
       THEN [wrapper EXCEPT !.pc[c] = "factory"]
       ELSE IF wrapper.env = "browser"
       THEN [wrapper EXCEPT !.scripts = @ + 1, !.pc[c] = "script"]
       ELSE [wrapper EXCEPT !.pc[c] = "import"]
  /\ UNCHANGED <<InitVars, wasmReady>>

\* script.onload with createFalconModule defined or not, or script.onerror
ScriptLoads(c) ==
  /\ wrapper.pc[c] = "script"
  /\ \E found \in BOOLEAN :
       wrapper' = IF found
                  THEN [wrapper EXCEPT !.moduleFactory = TRUE, !.pc[c] = "factory"]
                  ELSE [wrapper EXCEPT !.pc[c] = "rejected"]
  /\ UNCHANGED <<InitVars, wasmReady>>

\* await import('./falcon_wasm_raw.js') settles
ImportSettles(c) ==
  /\ wrapper.pc[c] = "import"
  /\ \E resolved \in BOOLEAN :
       wrapper' = IF resolved
                  THEN [wrapper EXCEPT !.moduleFactory = TRUE, !.pc[c] = "factory"]
                  ELSE [wrapper EXCEPT !.pc[c] = "rejected"]
  /\ UNCHANGED <<InitVars, wasmReady>>

\* init() resumes with the factory and calls createModule({...})
CreateModule(c) ==
  /\ wrapper.pc[c] = "factory"
  /\ wrapper' = [wrapper EXCEPT !.created = @ + 1, !.pc[c] = "module"]
  /\ UNCHANGED <<InitVars, wasmReady>>

\* await createModule settles.  When it resolves: wasmModule = the instance,
\* then _falcon_init(), which returns (wasmReady = true) or throws (the call
\* is rejected with wasmModule assigned and wasmReady as it was)
ModuleSettles(c) ==
  /\ wrapper.pc[c] = "module"
  /\ \E outcome \in {"resolved", "initThrows", "rejected"} :
       CASE outcome = "resolved" ->
              /\ wrapper' = [wrapper EXCEPT !.wasmModule = c, !.inits = @ + 1,
                                            !.pc[c] = "returned"]
              /\ wasmReady' = TRUE
         [] outcome = "initThrows" ->
              /\ wrapper' = [wrapper EXCEPT !.wasmModule = c, !.inits = @ + 1,
                                            !.pc[c] = "rejected"]
              /\ UNCHANGED wasmReady
         [] OTHER ->
              /\ wrapper' = [wrapper EXCEPT !.pc[c] = "rejected"]
              /\ UNCHANGED wasmReady
  /\ UNCHANGED InitVars

NextInit ==
  \/ \E c \in 1..MaxInitCalls : CallInit(c)
  \/ \E c \in 1..MaxInitCalls : ScriptLoads(c)
  \/ \E c \in 1..MaxInitCalls : ImportSettles(c)
  \/ \E c \in 1..MaxInitCalls : CreateModule(c)
  \/ \E c \in 1..MaxInitCalls : ModuleSettles(c)

SpecInit == InitWrapper /\ [][NextInit]_vars

\* C27: as long as no call of init() was rejected, any number of calls of
\* init(), overlapping or not, append one script element at most, call
\* createModule once at most and call _falcon_init once at most.
C27_InitOnce ==
  (\A c \in DOMAIN wrapper.pc : wrapper.pc[c] # "rejected")
    => /\ wrapper.scripts <= 1
       /\ wrapper.created <= 1
       /\ wrapper.inits <= 1

\* ------------------------------------------------------------------------
\* Relations between calls: one operation applied to several inputs, or the
\* result of one call handed to the next
\* ------------------------------------------------------------------------
\* master seeds the derivations accept
MasterSeeds == {s \in Seeds : Len(s) >= MIN_SEED_LEN}

\* indices whose child seeds are compared: the sample 0, 1, 2, 255, 256, and
\* two indices that differ in their highest byte
SampleIndexes == <<0, 1, 2, 255, 256>>

\* indices that differ in one byte each, in one bit, or in all bits; -1 and
\* -2147483647 stand for the 32-bit indices 4294967295 and 2147483649
BitIndexes == <<0, 1, 128, 256, 32768, 65536, 8388608, 16777216, -2147483647, -1>>

Samples == {SampleIndexes, <<0, 16777216>>, BitIndexes}

\* deriveChildSeed(master, index) for each index of the sample
DeriveSample(prov, mod, masterSeed, sample) ==
  [k \in 1..Len(sample) |-> fw_derive_child_seed(prov, mod, masterSeed, sample[k])]

InitRel ==
  /\ engine \in Engines
  /\ seedIn \in MasterSeeds
  /\ keys = [op |-> "none", out |-> NoOut]
  /\ sig = [message |-> <<>>, out |-> NoOut]
  /\ call = [op |-> "none", arg |-> <<>>, out |-> NoOut]
  /\ ProviderIdle

\* the child seeds of a sample of indices under one master seed
RelDeriveSample ==
  /\ Fresh
  /\ \E sample \in Samples :
       call' = [op |-> "derive_sample", arg |-> sample,
                out |-> Ok(DeriveSample(engine.provider, engine.mod, seedIn, sample))]
  /\ UNCHANGED <<engine, seedIn, keys, sig>>
  /\ UNCHANGED provVars

\* a second public key for verify: the same key, or the key with its first
\* byte or its last byte changed
KeyVariants == {"same", "head", "tail"}

VariantKey(publicKey, v) ==
  CASE v = "head" -> [publicKey EXCEPT ![1] = (@ + 1) % 256]
    [] v = "tail" -> [publicKey EXCEPT ![Len(publicKey)] = (@ + 1) % 256]
    [] OTHER -> publicKey

\* keypairFromSeed for the seed of this behaviour, if it has just 48 bytes
RelKeypair ==
  /\ Fresh
  /\ keys.op = "none"
  /\ Len(seedIn) = MIN_SEED_LEN
  /\ keys' = [op |-> "keypair_from_seed",
              out |-> fw_keypair_from_seed(engine.provider, engine.mod, seedIn,
                                           Env(TRUE, NoNative, <<>>))]
  /\ UNCHANGED <<engine, seedIn, sig, call>>
  /\ UNCHANGED provVars

\* verify(M, S, P) for the signature S that verify accepts for (M, P), then
\* verify(M2, S, P2) for a second message and a second public key
RelVerifyPair ==
  /\ Fresh
  /\ keys.out.kind = "ok"
  /\ \E message \in Msgs :
       LET publicKey == keys.out.val.publicKey
           signature == AcceptedSig(message, publicKey)
           first == fw_verify(engine.provider, engine.mod, message, signature,
                              publicKey, Env(TRUE, NoNative, <<>>))
       IN /\ sig' = [message |-> message, out |-> Ok(signature)]
          /\ \E message2 \in Msgs, v \in KeyVariants :
               call' = [op |-> "verify_pair",
                        arg |-> <<message2, VariantKey(publicKey, v)>>,
                        out |-> Ok(<<first,
                                     fw_verify(engine.provider, engine.mod, message2,
                                               signature, VariantKey(publicKey, v),
                                               Env(TRUE, NoNative, <<>>))>>)]
  /\ UNCHANGED <<engine, seedIn, keys>>
  /\ UNCHANGED provVars

\* the calls that produce a seed: generateSeed(), seedFromPassphrase(passphrase,
\* salt, iterations) with salts of 7, 8 and 48 bytes, deriveChildSeed(master,
\* index) with indices up to the 32-bit limit (-1 stands for 2^32 - 1)
SeedRequests ==
  {<<"generate_seed">>}
    \cup {<<"seed_from_passphrase", passphrase, salt, iterations>> :
            passphrase \in Passphrases,
            salt \in Salts \cup {SeedGen(MIN_SEED_LEN, 1, 1)},
            iterations \in IterationCounts}
    \cup {<<"derive_child_seed", index>> :
            index \in Indexes \cup {255, 256, 16777216, -1}}

ProducedSeed(prov, mod, masterSeed, req) ==
  CASE req[1] = "generate_seed" ->
         fw_generate_seed(prov, mod,
                          Env(TRUE, NoNative, Slice(masterSeed, 0, MIN_SEED_LEN)))
    [] req[1] = "seed_from_passphrase" ->
         fw_seed_from_passphrase(prov, mod, req[2], req[3], req[4])
    [] OTHER -> fw_derive_child_seed(prov, mod, masterSeed, req[2])

\* a seed is produced, then handed to keypairFromSeed and, as master seed, to
\* deriveChildSeed
RelSeedChain ==
  /\ Fresh
  /\ keys.op = "none"
  /\ \E req \in SeedRequests :
       LET produced == ProducedSeed(engine.provider, engine.mod, seedIn, req)
       IN call' = [op |-> "seed_chain", arg |-> req,
                   out |-> IF produced.kind # "ok" THEN Ok(<<produced, NoOut, NoOut>>)
                           ELSE Ok(<<produced,
                                     fw_keypair_from_seed(engine.provider, engine.mod,
                                                          produced.val,
                                                          Env(TRUE, NoNative, <<>>)),
                                     fw_derive_child_seed(engine.provider, engine.mod,
                                                          produced.val, 0)>>)]
  /\ UNCHANGED <<engine, seedIn, keys, sig>>
  /\ UNCHANGED provVars

\* seedFromPassphrase at and above the cap of 1000 rounds: the interface, a
\* valid salt of 8 or 48 bytes, an iteration count of 1000, 1001 or 5000
CapCases ==
  {<<e, salt, n>> : e \in Engines,
                    salt \in {SeedGen(MIN_SALT_LEN, 1, 1), SeedGen(MIN_SEED_LEN, 1, 1)},
                    n \in {MAX_ROUNDS, MAX_ROUNDS + 1, 5 * MAX_ROUNDS}}

\* what seedFromPassphrase returns in each case, computed once
CapSeeds ==
  [c \in CapCases |->
     fw_seed_from_passphrase(c[1].provider, c[1].mod, ValidPassphrase, c[2], c[3])]
    @@ <<>>

\* seedFromPassphrase(p, s, n) next to seedFromPassphrase(p, s, 1000)
RelIterationCap ==
  /\ Fresh
  /\ keys.op = "none"
  /\ \E c \in CapCases :
       /\ c[1] = engine
       /\ call' = [op |-> "iteration_cap", arg |-> <<Len(c[2]), c[3]>>,
                   out |-> Ok(<<CapSeeds[c], CapSeeds[<<c[1], c[2], MAX_ROUNDS>>]>>)]
  /\ UNCHANGED <<engine, seedIn, keys, sig>>
  /\ UNCHANGED provVars

\* simpleHash(data) for the seed of the behaviour or a message
RelHash ==
  /\ Fresh
  /\ keys.op = "none"
  /\ \E data \in {seedIn} \cup Msgs :
       call' = [op |-> "simpleHash", arg |-> data, out |-> Ok(simpleHash(data))]
  /\ UNCHANGED <<engine, seedIn, keys, sig>>
  /\ UNCHANGED provVars

\* a sequence of operations of the real wrapper, with the buffers each one
\* allocates and frees and the buffers left allocated after it; the
\* arguments are arrays (a seed of 48 bytes or more or of 47, a message of one
\* byte, a key or a signature of its length) or missing (-1)
RelHeapCall ==
  /\ engine.mod = "real"
  /\ keys.op = "none"
  /\ call.op \in {"none", "heap"}
  /\ LET calls == IF call.op = "heap" THEN call.arg.calls ELSE 0
         live == IF call.op = "heap" THEN call.out.val.live ELSE EmptyBag
         args(fn) ==
           CASE fn = "generate_seed" -> {<<>>}
             [] fn = "keypair_from_seed" ->
                  {<<Len(seedIn)>>, <<MIN_SEED_LEN - 1>>, <<-1>>}
             [] fn = "sign" -> {<<1, SK_LEN>>, <<-1, SK_LEN>>, <<1, -1>>}
             [] OTHER -> {<<1, SIG_LEN, PK_LEN>>, <<-1, SIG_LEN, PK_LEN>>,
                          <<1, -1, PK_LEN>>, <<1, SIG_LEN, -1>>}
     IN /\ calls < MaxHeapCalls
        /\ \E fn \in {"generate_seed", "keypair_from_seed", "sign", "verify"},
              ready \in BOOLEAN,
              native \in [rc : {-1, 0, 1, SIG_LEN}, exit : {"returns", "traps"}]
                           \cup {[rc |-> 2147483647, exit |-> "overruns"]} :
             \E lens \in args(fn) :
               LET trace == rw_heap(fn, ready, lens, native)
                   \* the operation throws before its native call
                   uncalled == \/ ~ready
                               \/ \E k \in DOMAIN lens : lens[k] < 0
                               \/ fn = "keypair_from_seed" /\ lens[1] < MIN_SEED_LEN
               IN /\ native.exit = "overruns" => fn = "sign"
                  /\ (uncalled \/ native.exit = "traps" \/ fn = "generate_seed")
                       => native.rc = 0
                  /\ uncalled => native.exit = "returns"
                  /\ call' = [op |-> "heap",
                              arg |-> [fn |-> fn, ready |-> ready, lens |-> lens,
                                       native |-> native, calls |-> calls + 1],
                              out |-> Ok([trace |-> trace,
                                          live |-> HeapAfter(live, trace)])]
  /\ UNCHANGED <<engine, seedIn, keys, sig>>
  /\ UNCHANGED provVars

\* secret keys made from the generated one: the key itself, the key with one
\* byte changed before, at the start of, at the end of or after bytes 100..131,
\* the key cut after byte 131, and keys of 1, 100 and 101 bytes
SecretVariants ==
  {"same", "head", "before", "first", "last", "after", "cut", "short1", "short100",
   "short101"}

VariantSecret(secretKey, v) ==
  CASE v = "head" -> [secretKey EXCEPT ![1] = (@ + 1) % 256]
    [] v = "before" -> [secretKey EXCEPT ![SK_OFFSET] = (@ + 1) % 256]
    [] v = "first" -> [secretKey EXCEPT ![SK_OFFSET + 1] = (@ + 1) % 256]
    [] v = "last" -> [secretKey EXCEPT ![PATTERN_END] = (@ + 1) % 256]
    [] v = "after" -> [secretKey EXCEPT ![PATTERN_END + 1] = (@ + 1) % 256]
    [] v = "cut" -> Slice(secretKey, 0, PATTERN_END)
    [] v = "short1" -> <<7>>
    [] v = "short100" -> Slice(secretKey, 0, SK_OFFSET)
    [] v = "short101" -> Slice(secretKey, 0, SK_OFFSET + 1)
    [] OTHER -> secretKey

\* sign(M, K1) and sign(M, K2) for two secret keys made from the generated one
RelSignPair ==
  /\ Fresh
  /\ keys.out.kind = "ok"
  /\ engine.mod = "fallback"
  /\ \E message \in Msgs, v \in {"same", "short1"}, w \in SecretVariants :
       /\ v = "short1" => w \in {"short100", "short101"}
       /\ call' = [op |-> "sign_pair",
                   arg |-> [message |-> message, first |-> v, second |-> w],
                   out |-> Ok(<<fw_sign(engine.provider, engine.mod, message,
                                        VariantSecret(keys.out.val.secretKey, v),
                                        Env(TRUE, NoNative, <<>>)),
                                fw_sign(engine.provider, engine.mod, message,
                                        VariantSecret(keys.out.val.secretKey, w),
                                        Env(TRUE, NoNative, <<>>))>>)]
  /\ UNCHANGED <<engine, seedIn, keys, sig>>
  /\ UNCHANGED provVars

\* byte arrays given to uint8ArrayToHex: empty, with bytes below and above 16,
\* with every kind of digit, the messages and the seed of the behaviour
HexSamples ==
  {<<>>, <<0>>, <<9, 10>>, <<15, 16>>, <<171, 205, 239>>, <<255, 1, 128>>} \cup Msgs

\* hexToUint8Array(str) for the strings "-1", " 1", "+1ff", "\n", "-f",
\* "ab\ncd", "ABc", "0x", "1g", "g1", and strings with a vertical tab, a
\* no-break space, U+FEFF, U+2028 and U+2029
RelHexParse ==
  /\ Fresh
  /\ keys.op = "none"
  /\ engine.mod = "fallback"
  /\ \E str \in {<<45, 49>>, <<32, 49>>, <<43, 49, 102, 102>>, <<10>>, <<45, 102>>,
                 <<97, 98, 10, 99, 100>>, <<65, 66, 99>>, <<48, 120>>, <<49, 103>>,
                 <<103, 49>>, <<11, 49>>, <<160, 49>>, <<65279, 49>>,
                 <<97, 98, 8232, 99, 100>>, <<8232>>, <<97, 8233>>} :
       call' = [op |-> "hexToUint8Array", arg |-> str, out |-> hexToUint8Array(str)]
  /\ UNCHANGED <<engine, seedIn, keys, sig>>
  /\ UNCHANGED provVars

\* hexToUint8Array(uint8ArrayToHex(b))
RelHexRoundTrip ==
  /\ Fresh
  /\ keys.op = "none"
  /\ \E bytes \in HexSamples \cup {seedIn} :
       call' = [op |-> "hex", arg |-> bytes,
                out |-> Ok([hex |-> uint8ArrayToHex(bytes),
                            back |-> hexToUint8Array(uint8ArrayToHex(bytes))])]
  /\ UNCHANGED <<engine, seedIn, keys, sig>>
  /\ UNCHANGED provVars

\* the calls above, each applied to the interface and seed of the behaviour

NextRel ==
  \/ RelDeriveSample
  \/ RelKeypair
  \/ RelVerifyPair
  \/ RelSeedChain
  \/ RelIterationCap
  \/ RelHash
  \/ RelHeapCall
  \/ RelSignPair
  \/ RelHexRoundTrip
  \/ RelHexParse

SpecRel == InitRel /\ [][NextRel]_vars

\* C11: under the fallback, with a master seed of at least 48 bytes, the child
\* seeds derived for the indices 0, 1, 2, 255 and 256 are not all the same:
\* at least two of them differ.
C11_ChildSeedsDiffer ==
  (/\ engine.mod \in {"fallback", "fallbackB"}
   /\ call.op = "derive_sample"
   /\ call.arg = SampleIndexes)
    => \E i, j \in 1..Len(SampleIndexes) : call.out.val[i] # call.out.val[j]

\* C12: on the fallback, a 666-byte signature that verify accepts for a message
\* M and a public key P is accepted for no other pair: verify returns false for
\* every other message under P and for every other public key with M.
C12_AcceptedForOnePair ==
  (/\ engine.mod = "fallback"
   /\ call.op = "verify_pair"
   /\ Len(sig.out.val) = SIG_LEN
   /\ call.out.val[1] = Ok(TRUE)
   /\ \/ call.arg[1] # sig.message /\ call.arg[2] = keys.out.val.publicKey
      \/ call.arg[1] = sig.message /\ call.arg[2] # keys.out.val.publicKey)
    => call.out.val[2] = Ok(FALSE)

\* C13: every seed returned by generateSeed, by seedFromPassphrase and by
\* deriveChildSeed has exactly 48 bytes, and on the modules that implement the
\* derivations keypairFromSeed accepts it and deriveChildSeed accepts it as a
\* master seed.
C13_ProducedSeedLength ==
  (call.op = "seed_chain" /\ call.out.val[1].kind = "ok")
    => /\ Len(call.out.val[1].val) = MIN_SEED_LEN
       /\ engine.mod \in NonNative
            => call.out.val[2].kind = "ok" /\ call.out.val[3].kind = "ok"

C13_Witness ==
  /\ engine.mod = "fallback"
  /\ call.op = "seed_chain"
  /\ call.arg[1] = "seed_from_passphrase"
  /\ Len(call.arg[3]) = MIN_SEED_LEN
  /\ call.out.val[1].kind = "ok"
  /\ Len(call.out.val[1].val) = MIN_SEED_LEN
  /\ call.out.val[2].kind = "ok"
  /\ call.out.val[3].kind = "ok"

\* C15: for a valid passphrase and salt and every iteration count of 1000 or
\* more, seedFromPassphrase returns the seed it returns for 1000 iterations.
C15_IterationCap ==
  (call.op = "iteration_cap" /\ engine.mod \in NonNative)
    => /\ call.out.val[1].kind = "ok"
       /\ call.out.val[1] = call.out.val[2]

C15_Witness ==
  /\ engine.mod = "fallback"
  /\ call.op = "iteration_cap"
  /\ call.arg = <<MIN_SALT_LEN, 5 * MAX_ROUNDS>>
  /\ call.out.val[1].kind = "ok"
  /\ call.out.val[1] = call.out.val[2]

\* C22: simpleHash(data) returns 32 bytes with output[i] = ((2 * acc[i]) mod 256)
\* OR (acc[(i + 1) mod 32] div 128) for every i in 0..31, where acc is the
\* accumulator after the first loop: byte 31 too reads acc[0] as it stood
\* before the rotation pass.
C22_RotationFromAccumulator ==
  call.op = "simpleHash"
    => LET acc == Accumulate(Arr([k \in 1..HASH_LEN |-> 0], HASH_LEN), call.arg, 0,
                             Len(call.arg))
       IN /\ Len(call.out.val) = HASH_LEN
          /\ \A i \in 0..(HASH_LEN - 1) :
               At(call.out.val, i)
                 = ((2 * At(acc, i)) % 256) + (At(acc, (i + 1) % HASH_LEN) \div 128)

\* C26: in the real wrapper every buffer an operation allocates is freed
\* exactly once, after its allocation and before the operation returns or
\* throws, so no buffer is left allocated after any sequence of operations;
\* an operation rejected by validation (module not initialized, seed shorter
\* than 48 bytes) allocates nothing.
C26_BuffersFreedOnce ==
  call.op = "heap" =>
    LET trace == call.out.val.trace
        At_(k) == trace[k]
    IN /\ call.out.val.live = EmptyBag
       /\ \A k \in DOMAIN trace :
            /\ At_(k)[1] = "malloc" =>
                 /\ Cardinality({j \in DOMAIN trace : At_(j) = <<"free", At_(k)[2]>>}) = 1
                 /\ \A j \in DOMAIN trace : At_(j) = <<"free", At_(k)[2]>> => j > k
            /\ At_(k)[1] = "free" =>
                 Cardinality({j \in DOMAIN trace : At_(j) = <<"malloc", At_(k)[2]>>}) = 1
       /\ (\/ ~call.arg.ready
           \/ (call.arg.fn = "keypair_from_seed" /\ call.arg.lens[1] < MIN_SEED_LEN))
            => trace = <<>>

\* C28: in the mock wasm module, under a master seed of exactly 48 bytes any
\* two distinct indices have different child seeds.
C28_MockChildSeedsInjective ==
  (/\ engine.mod = "mockwasm"
   /\ call.op = "derive_sample"
   /\ Len(seedIn) = MIN_SEED_LEN)
    => \A i, j \in DOMAIN call.arg :
         call.arg[i] # call.arg[j]
           => /\ call.out.val[i].kind = "ok"
              /\ call.out.val[j].kind = "ok"
              /\ call.out.val[i].val # call.out.val[j].val

C28_Witness ==
  /\ engine.mod = "mockwasm"
  /\ call.op = "derive_sample"
  /\ call.arg = BitIndexes
  /\ Len(seedIn) = MIN_SEED_LEN
  /\ call.out.val[1].kind = "ok"
  /\ call.out.val[8].val # call.out.val[1].val
  /\ \A k \in 1..15 : call.out.val[8].val[k] = call.out.val[1].val[k]

\* C29: on the fallback, two non-empty secret keys whose bytes 100..131 are the
\* same give the same signature for a message, whatever their lengths and their
\* other bytes; a non-empty key of at most 100 bytes gives the signature of
\* the message alone.
C29_SignReadsPatternOnly ==
  call.op = "sign_pair" =>
    LET first == VariantSecret(keys.out.val.secretKey, call.arg.first)
        second == VariantSecret(keys.out.val.secretKey, call.arg.second)
    IN /\ Slice(first, SK_OFFSET, PATTERN_END) = Slice(second, SK_OFFSET, PATTERN_END)
            => call.out.val[1] = call.out.val[2]
       /\ \A k \in 1..2 :
            Len(VariantSecret(keys.out.val.secretKey,
                              IF k = 1 THEN call.arg.first ELSE call.arg.second))
              <= SK_OFFSET
              => call.out.val[k] = Ok(Expand(simpleHash(call.arg.message), SIG_LEN))

C29_Witness ==
  /\ call.op = "sign_pair"
  /\ call.arg.first = "same"
  /\ call.arg.second = "cut"
  /\ Len(call.arg.message) > 0
  /\ call.out.val[1].kind = "ok"
  /\ call.out.val[1] = call.out.val[2]
  /\ call.out.val[1] # Ok(Expand(simpleHash(call.arg.message), SIG_LEN))

\* C30: hexToUint8Array(uint8ArrayToHex(b)) returns b for every byte array b,
\* the empty one included, and uint8ArrayToHex(b) has two lowercase hex digits
\* for each byte of b.
C30_HexRoundTrip ==
  call.op = "hex" =>
    /\ call.out.val.back = Ok(call.arg)
    /\ Len(call.out.val.hex) = 2 * Len(call.arg)
    /\ \A k \in DOMAIN call.out.val.hex :
         \E d \in 1..16 : call.out.val.hex[k] = HexDigits[d]

====
